---- MODULE Spec2Model ----
(***************************************************************************)
(* Model of the indexing pipeline of qdrant_indexer.py: the object store   *)
(* (MinIO bucket), the vector store (one Qdrant collection), the change    *)
(* tracker file processed_files.json, and index_all_documents /            *)
(* index_document as a sequential process stepping through its code.       *)
(*                                                                         *)
(* Strings the code inspects (file names, extracted text) are sequences    *)
(* of one-character strings.  md5 is modelled as a collision-free digest:  *)
(* the digest of a value is the tagged value itself.                       *)
(***************************************************************************)
EXTENDS Integers, Sequences, FiniteSets, TLC

(***************************************************************************)
(* Bounds of the model.  CHUNK_SIZE and BATCH_SIZE stand for the source's  *)
(* 500 (line 19) and 100 (line 195), scaled down so that documents of a    *)
(* few characters span several chunks and several batches.                 *)
(***************************************************************************)
CHUNK_SIZE == 2
BATCH_SIZE == 2
MaxRuns == 3
MaxPuts == 2
MaxTextLen == 5
MaxChunkSize == 3
MaxNameLen == 2
MaxKeyIndex == 11
MaxHits == 3
MaxLimit == 3

Min(a, b) == IF a < b THEN a ELSE b

(***************************************************************************)
(* Strings                                                                 *)
(***************************************************************************)
\* str.lower() on one character; only the letters used by the model's
\* file names have an upper-case form here.
LowerChar(c) ==
    CASE c = "P" -> "p"
      [] c = "D" -> "d"
      [] c = "F" -> "f"
      [] c = "B" -> "b"
      [] OTHER -> c

lower(s) == [k \in 1..Len(s) |-> LowerChar(s[k])]

endswith(s, suffix) ==
    /\ Len(s) >= Len(suffix)
    /\ SubSeq(s, Len(s) - Len(suffix) + 1, Len(s)) = suffix

IsSpace(c) == c = " "

RECURSIVE lstrip(_)
lstrip(s) == IF s # <<>> /\ IsSpace(Head(s)) THEN lstrip(Tail(s)) ELSE s

RECURSIVE rstrip(_)
rstrip(s) ==
    IF s # <<>> /\ IsSpace(s[Len(s)]) THEN rstrip(SubSeq(s, 1, Len(s) - 1)) ELSE s

strip(s) == rstrip(lstrip(s))

Digit(n) == CASE n = 0 -> "0" [] n = 1 -> "1" [] n = 2 -> "2" [] n = 3 -> "3"
              [] n = 4 -> "4" [] n = 5 -> "5" [] n = 6 -> "6" [] n = 7 -> "7"
              [] n = 8 -> "8" [] n = 9 -> "9"

\* str(i) of a non-negative int, as the f-string of line 181 formats it.
RECURSIVE str(_)
str(n) == IF n < 10 THEN <<Digit(n)>> ELSE str(n \div 10) \o <<Digit(n % 10)>>

(***************************************************************************)
(* Documents of the object store                                           *)
(***************************************************************************)
A_PDF == <<"a", ".", "p", "d", "f">>
B_PDF == <<"b", ".", "P", "d", "F">>
N_TXT == <<"n", ".", "t", "x", "t">>

\* list_objects returns the object names in lexicographic order.
NameOrder == <<A_PDF, B_PDF, N_TXT>>
FileNames == {NameOrder[k] : k \in 1..Len(NameOrder)}

\* The bytes of an object, as far as the pipeline can tell them apart:
\* whether PdfReader accepts them, and the text of each page.
EmptyDoc == [pdf |-> TRUE, pages |-> << <<>>, <<" ">> >>]
ShortDoc == [pdf |-> TRUE, pages |-> << <<"x", "y", "x">> >>]
LongDoc  == [pdf |-> TRUE, pages |-> << <<"x", "y", "x">>, <<>>, <<"y", "x", "y", "x", "y">> >>]
JunkDoc  == [pdf |-> FALSE, pages |-> <<>>]
OtherDoc == [pdf |-> TRUE, pages |-> << <<"y", "x", "y">> >>]
Contents == {EmptyDoc, ShortDoc, LongDoc, JunkDoc, OtherDoc}

\* What the environment stores under each name (a bound of the model).
ContentsOf(name) ==
    CASE name = A_PDF -> {EmptyDoc, ShortDoc, LongDoc, JunkDoc}
      [] name = B_PDF -> {ShortDoc, OtherDoc}
      [] OTHER -> {ShortDoc}

(***************************************************************************)
(* Pure functions of the indexer                                           *)
(***************************************************************************)
get_file_hash(bytes) == <<"md5", bytes>>

RECURSIVE JoinPages(_)
JoinPages(pages) ==
    IF pages = <<>> THEN <<>>
    ELSE IF Head(pages) # <<>>
         THEN Head(pages) \o <<" ">> \o JoinPages(Tail(pages))
         ELSE JoinPages(Tail(pages))

\* extract_text_from_pdf: (text, page_count)
extract_text_from_pdf(bytes) ==
    [text |-> strip(JoinPages(bytes.pages)), page_count |-> Len(bytes.pages)]

\* The start offsets range(0, len(text), chunk_size).
ChunkStarts(text, chunk_size) ==
    {k \in 0..(Len(text) - 1) : k % chunk_size = 0}

\* A chunker that only cuts whole chunks and loses a shorter tail.
split_whole_chunks_only(text, chunk_size) ==
    [c \in 1..(Len(text) \div chunk_size) |->
        SubSeq(text, (c - 1) * chunk_size + 1, c * chunk_size)]

split_text_into_chunks(text, chunk_size) ==
    IF text = <<>> THEN <<>>
    ELSE [c \in 1..Cardinality(ChunkStarts(text, chunk_size)) |->
            SubSeq(text, (c - 1) * chunk_size + 1,
                   Min((c - 1) * chunk_size + chunk_size, Len(text)))]

\* Line 181: int(md5(f"{file_name}-{i}").hexdigest()[:16], 16)
\* A key without the separator between name and index.
ChunkKeyNoSeparator(name, i) == name \o str(i)

ChunkKey(name, i) == name \o <<"-">> \o str(i)
chunk_id(name, i) == <<"md5_16", ChunkKey(name, i)>>

encode(chunk) == <<"embedding", chunk>>

\* The dimension the embedder of line 34 (BAAI/bge-base-en-v1.5) reports.
get_sentence_embedding_dimension == 768

\* A pipeline without the else branch of line 158: every object is read as a PDF.
treat_as_pdf(name) == TRUE

is_supported(name) == endswith(lower(name), <<".", "p", "d", "f">>)

(***************************************************************************)
(* State                                                                   *)
(***************************************************************************)
VARIABLES
    FORCE_REINDEX,    \* the configuration flag of line 21, as set for the current run
    bucket_exists,    \* object store: does the bucket exist
    bucket,           \* object store: object name -> bytes
    collection,       \* vector store: the collection "documents"
    tracker_file,     \* processed_files.json on disk
    clock,            \* what time.time() returns
    pc,               \* position of the indexer in its code
    objects,          \* index_all_documents: the listing of line 231
    idx,              \* index_all_documents: position of the for loop of line 234
    file_name,        \* index_document locals ...
    file_stream,
    file_hash,
    processed_files,
    text,
    page_count,
    text_chunks,
    i,
    points,
    outcome,          \* history: terminal state of each document in this run
    exit_at,          \* history: where index_document returned, or the call that raised
    attempted,        \* history: documents index_document was called on in this run
    prev_no_chunks,   \* history: documents the previous run found to have no chunks
    batches,          \* history: the batches upserted by the current index_document call
    runs,             \* history: runs started
    puts,             \* history: objects written by the environment
    dirty,            \* history: the bucket changed since the last run ended
    last,             \* history: how the previous run went
    chunk_size,       \* argument of split_text_into_chunks under SpecChunker
    pair_a,           \* SpecKeys: a (file name, chunk index) pair
    pair_b,           \* SpecKeys: another pair
    chunk_ids,        \* SpecKeys: the identifiers derived for the two pairs
    rpc,              \* SpecRetrieve: position inside retrieve_docs
    request,          \* SpecRetrieve: the QueryRequest
    scored,           \* SpecRetrieve: the collection's points, scored against the query
    search_results,   \* SpecRetrieve: what qdrant_client.search returned
    hit,              \* SpecRetrieve: position of the loop over search_results
    documents,        \* SpecRetrieve: the DocumentChunks built so far
    warnings,         \* SpecRetrieve: ids of the hits a warning was logged for
    raised,           \* SpecRetrieve: history, the exception that ended the request
    response,         \* SpecRetrieve: the HTTP response
    processed_json,   \* SpecOverlap: the file at PROCESSED_FILES_PATH
    executions,       \* SpecOverlap: the state of each index_document execution
    time,             \* SpecOverlap: time.time()
    overlapped,       \* SpecOverlap: history, the two executions overlapped in time
    finished          \* SpecOverlap: history, the executions in the order they saved

pipelineVars ==
        <<FORCE_REINDEX, bucket_exists, bucket, collection, tracker_file, clock,
          pc, objects, idx, file_name, file_stream, file_hash, processed_files,
          text, page_count, text_chunks, i, points, outcome, exit_at,
          attempted, prev_no_chunks, batches, runs, puts, dirty, last, chunk_size>>

keysVars == <<pair_a, pair_b, chunk_ids>>
retrVars == <<rpc, request, scored, search_results, hit, documents, warnings,
              raised, response>>
overlapVars == <<processed_json, executions, time, overlapped, finished>>
sideVars == <<keysVars, retrVars, overlapVars>>

vars == <<pipelineVars, sideVars>>

envVars   == <<bucket_exists, bucket, puts>>
localVars == <<file_name, file_stream, file_hash, processed_files, text,
               page_count, text_chunks, i, points>>
histVars  == <<outcome, exit_at, attempted, prev_no_chunks>>

NoName == <<>>
NoBytes == [pdf |-> FALSE, pages |-> <<>>]
NoHash == <<"md5", "none">>
EmptyMap == <<>>

NoCollection == [exists |-> FALSE, size |-> 0, distance |-> "none", points |-> EmptyMap]
NewCollection ==
    [exists |-> TRUE, size |-> get_sentence_embedding_dimension,
     distance |-> "Cosine", points |-> EmptyMap]

\* processed_files.json: absent, unparseable, or a JSON object
MissingFile == [state |-> "missing", data |-> EmptyMap]
CorruptFile == [state |-> "corrupt", data |-> EmptyMap]
JsonFile(m) == [state |-> "json", data |-> m]

NoPair == [name |-> <<>>, index |-> 0]

NoRequest == [query |-> <<>>, limit |-> 0, threshold |-> 0]
NoResponse == [status_code |-> 0]

\* The variables of SpecKeys, unused.
KeysAtRest ==
    /\ pair_a = NoPair
    /\ pair_b = NoPair
    /\ chunk_ids = <<>>

\* The variables of SpecRetrieve, unused.
RetrieveAtRest ==
    /\ rpc = "off"
    /\ request = NoRequest
    /\ scored = EmptyMap
    /\ search_results = <<>>
    /\ hit = 0
    /\ documents = <<>>
    /\ warnings = {}
    /\ raised = "none"
    /\ response = NoResponse

\* The variables of SpecOverlap, unused.
OverlapAtRest ==
    /\ processed_json = MissingFile
    /\ executions = EmptyMap
    /\ time = 0
    /\ overlapped = FALSE
    /\ finished = <<>>

\* The variables of the other specifications, unused.
SideAtRest ==
    /\ KeysAtRest
    /\ RetrieveAtRest
    /\ OverlapAtRest

NoOutcome == [d \in FileNames |-> "none"]
NoRun == [done |-> FALSE, force |-> FALSE, failed |-> FALSE]

DocPcs == {"fetch", "check", "extract", "chunk", "embed", "flush", "final", "record"}

LocalsCleared ==
    /\ file_name = NoName
    /\ file_stream = NoBytes
    /\ file_hash = NoHash
    /\ processed_files = EmptyMap
    /\ text = <<>>
    /\ page_count = 0
    /\ text_chunks = <<>>
    /\ i = 0
    /\ points = <<>>

ClearLocals ==
    /\ file_name' = NoName
    /\ file_stream' = NoBytes
    /\ file_hash' = NoHash
    /\ processed_files' = EmptyMap
    /\ text' = <<>>
    /\ page_count' = 0
    /\ text_chunks' = <<>>
    /\ i' = 0
    /\ points' = <<>>

Init ==
    /\ FORCE_REINDEX = TRUE
    /\ bucket_exists \in BOOLEAN
    /\ bucket = EmptyMap
    /\ collection = NoCollection
    /\ tracker_file \in {MissingFile, CorruptFile}
    /\ clock = 0
    /\ pc = "idle"
    /\ objects = <<>>
    /\ idx = 0
    /\ LocalsCleared
    /\ outcome = NoOutcome
    /\ exit_at = NoOutcome
    /\ attempted = <<>>
    /\ prev_no_chunks = {}
    /\ batches = <<>>
    /\ runs = 0
    /\ puts = 0
    /\ dirty = FALSE
    /\ last = NoRun
    /\ chunk_size = CHUNK_SIZE
    /\ SideAtRest

(***************************************************************************)
(* Environment: the object store changes between runs                      *)
(***************************************************************************)
CreateBucket ==
    /\ pc = "idle"
    /\ ~bucket_exists
    /\ bucket_exists' = TRUE
    /\ UNCHANGED <<FORCE_REINDEX, bucket, collection, tracker_file, clock, pc,
                   objects, idx, localVars, histVars, batches, runs, puts,
                   dirty, last, chunk_size, sideVars>>

PutObject ==
    /\ pc = "idle"
    /\ bucket_exists
    /\ puts < MaxPuts
    /\ \E name \in FileNames : \E bytes \in ContentsOf(name) :
          /\ (name \in DOMAIN bucket => bucket[name] # bytes)
          /\ bucket' = [n \in DOMAIN bucket \cup {name} |->
                            IF n = name THEN bytes ELSE bucket[n]]
    /\ puts' = puts + 1
    /\ dirty' = TRUE
    /\ UNCHANGED <<FORCE_REINDEX, bucket_exists, collection, tracker_file, clock,
                   pc, objects, idx, localVars, histVars, batches, runs, last,
                   chunk_size, sideVars>>

(***************************************************************************)
(* index_all_documents                                                     *)
(***************************************************************************)
\* Lines 219-221: the bucket does not exist, the run returns at once.
RunWithoutBucket ==
    /\ pc = "idle"
    /\ runs < MaxRuns
    /\ ~bucket_exists
    /\ \E force \in BOOLEAN : FORCE_REINDEX' = force
    /\ runs' = runs + 1
    /\ clock' = clock + 1
    /\ outcome' = NoOutcome
    /\ exit_at' = NoOutcome
    /\ prev_no_chunks' = {d \in FileNames : exit_at[d] = "no_chunks"}
    /\ attempted' = <<>>
    /\ objects' = <<>>
    /\ idx' = 0
    /\ last' = NoRun
    /\ UNCHANGED <<envVars, collection, tracker_file, pc, localVars, batches,
                   dirty, chunk_size, sideVars>>

\* Lines 219-224: the bucket exists, go on to the collection.
BeginRun ==
    /\ pc = "idle"
    /\ runs < MaxRuns
    /\ bucket_exists
    /\ \E force \in BOOLEAN : FORCE_REINDEX' = force
    /\ runs' = runs + 1
    /\ clock' = clock + 1
    /\ outcome' = NoOutcome
    /\ exit_at' = NoOutcome
    /\ prev_no_chunks' = {d \in FileNames : exit_at[d] = "no_chunks"}
    /\ attempted' = <<>>
    /\ objects' = <<>>
    /\ idx' = 0
    /\ pc' = "collection"
    /\ UNCHANGED <<envVars, collection, tracker_file, localVars, batches,
                   dirty, last, chunk_size, sideVars>>

\* reset_collection, no call raising: delete if present, then create.
ResetCollection ==
    /\ pc = "collection"
    /\ FORCE_REINDEX
    /\ collection' = NewCollection
    /\ pc' = "list"
    /\ UNCHANGED <<FORCE_REINDEX, envVars, tracker_file, clock, objects, idx,
                   localVars, histVars, batches, runs, dirty, last, chunk_size, sideVars>>

\* reset_collection, a vector-store call raising: lines 101-102 print the
\* error and return, and index_all_documents goes on to the listing.
ResetCollectionError ==
    /\ pc = "collection"
    /\ FORCE_REINDEX
    /\ \E call \in {"get_collections", "delete_collection", "create_collection"} :
          /\ (call = "delete_collection" => collection.exists)
          /\ collection' = IF call = "create_collection" THEN NoCollection
                           ELSE collection
    /\ pc' = "list"
    /\ UNCHANGED <<FORCE_REINDEX, envVars, tracker_file, clock, objects, idx,
                   localVars, histVars, batches, runs, dirty, last, chunk_size, sideVars>>

\* ensure_collection_exists, no call raising.
EnsureCollectionExists ==
    /\ pc = "collection"
    /\ ~FORCE_REINDEX
    /\ collection' = IF collection.exists THEN collection ELSE NewCollection
    /\ pc' = "list"
    /\ UNCHANGED <<FORCE_REINDEX, envVars, tracker_file, clock, objects, idx,
                   localVars, histVars, batches, runs, dirty, last, chunk_size, sideVars>>

\* An exception that nothing catches ends the run: ensure_collection_exists
\* (get_collections, or create_collection of an absent collection) and
\* list_objects are called outside any try.
RunAborted ==
    /\ \/ pc = "collection" /\ ~FORCE_REINDEX
       \/ pc = "list"
    /\ pc' = "idle"
    /\ last' = NoRun
    /\ UNCHANGED <<FORCE_REINDEX, envVars, collection, tracker_file, clock,
                   objects, idx, localVars, histVars, batches, runs, dirty,
                   chunk_size, sideVars>>

\* list_objects(recursive=True): the names present, in the store's order.
RECURSIVE Listing(_)
Listing(k) ==
    IF k > Len(NameOrder) THEN <<>>
    ELSE IF NameOrder[k] \in DOMAIN bucket
         THEN <<NameOrder[k]>> \o Listing(k + 1)
         ELSE Listing(k + 1)

ListObjects ==
    /\ pc = "list"
    /\ objects' = Listing(1)
    /\ idx' = 1
    /\ pc' = IF Listing(1) = <<>> THEN "status" ELSE "fetch"
    /\ UNCHANGED <<FORCE_REINDEX, envVars, collection, tracker_file, clock,
                   localVars, histVars, batches, runs, dirty, last, chunk_size, sideVars>>

\* Lines 237-240: check_collection_status only prints (and catches what it
\* raises); the run is over.
CheckCollectionStatus ==
    /\ pc = "status"
    /\ pc' = "idle"
    /\ last' = [done |-> TRUE, force |-> FORCE_REINDEX,
                failed |-> \E d \in FileNames : outcome[d] = "Failed"]
    /\ dirty' = FALSE
    /\ UNCHANGED <<FORCE_REINDEX, envVars, collection, tracker_file, clock,
                   objects, idx, localVars, histVars, batches, runs, chunk_size, sideVars>>

(***************************************************************************)
(* index_document                                                          *)
(***************************************************************************)
\* index_document returns (by return or through the except of line 211) and
\* the for loop of line 234 takes the next object.
NextObject(k) == k + 1

\* An index_document whose exception leaves the for loop of line 234.
ReturnAbortsOnFailure(name, result, at) ==
    /\ outcome' = [outcome EXCEPT ![name] = result]
    /\ exit_at' = [exit_at EXCEPT ![name] = at]
    /\ idx' = IF result = "Failed" THEN Len(objects) + 1 ELSE NextObject(idx)
    /\ pc' = IF result = "Failed" \/ NextObject(idx) > Len(objects)
             THEN "status" ELSE "fetch"
    /\ batches' = <<>>
    /\ ClearLocals
    /\ UNCHANGED <<FORCE_REINDEX, envVars, clock, objects, prev_no_chunks, runs,
                   dirty, last, chunk_size, sideVars>>

Return(name, result, at) ==
    /\ outcome' = [outcome EXCEPT ![name] = result]
    /\ exit_at' = [exit_at EXCEPT ![name] = at]
    /\ idx' = NextObject(idx)
    /\ pc' = IF NextObject(idx) > Len(objects) THEN "status" ELSE "fetch"
    /\ batches' = <<>>
    /\ ClearLocals
    /\ UNCHANGED <<FORCE_REINDEX, envVars, clock, objects, prev_no_chunks, runs,
                   dirty, last, chunk_size, sideVars>>

\* Lines 136-141: the object is read and hashed.
GetObject ==
    /\ pc = "fetch"
    /\ file_name' = objects[idx]
    /\ file_stream' = bucket[objects[idx]]
    /\ file_hash' = get_file_hash(bucket[objects[idx]])
    /\ attempted' = Append(attempted, objects[idx])
    /\ pc' = "check"
    /\ UNCHANGED <<FORCE_REINDEX, envVars, collection, tracker_file, clock,
                   objects, idx, processed_files, text, page_count, text_chunks,
                   i, points, outcome, exit_at, prev_no_chunks, batches, runs, dirty,
                   last, chunk_size, sideVars>>

\* Line 136 raises: the object cannot be read.
GetObjectError ==
    /\ pc = "fetch"
    /\ attempted' = Append(attempted, objects[idx])
    /\ Return(objects[idx], "Failed", "get_object")
    /\ UNCHANGED <<collection, tracker_file>>

\* load_processed_files, lines 43-48; json.load raises on a file that is
\* not JSON, which CanLoad excludes.
CanLoad(file) == file.state # "corrupt"
load_processed_files(file) == IF file.state = "missing" THEN EmptyMap ELSE file.data

\* Line 206: the entry of a document in the map.
recordProcessed(processed, name, hash, now) ==
    [n \in DOMAIN processed \cup {name} |->
        IF n = name THEN [hash |-> hash, last_indexed |-> now] ELSE processed[n]]

\* A change check with the comparison inverted.
unchanged_inverted(force, processed, name, hash) ==
    /\ ~force
    /\ name \in DOMAIN processed
    /\ processed[name].hash # hash

\* The condition of line 144.
unchanged(force, processed, name, hash) ==
    /\ ~force
    /\ name \in DOMAIN processed
    /\ processed[name].hash = hash

\* Line 142 raises.
LoadProcessedFilesError ==
    /\ pc = "check"
    /\ ~CanLoad(tracker_file)
    /\ Return(file_name, "Failed", "load_processed_files")
    /\ UNCHANGED <<collection, tracker_file, attempted>>

\* Lines 142-146: already indexed and unchanged, skip.
SkipUnchanged ==
    /\ pc = "check"
    /\ CanLoad(tracker_file)
    /\ unchanged(FORCE_REINDEX, load_processed_files(tracker_file), file_name, file_hash)
    /\ Return(file_name, "Skipped", "unchanged")
    /\ UNCHANGED <<collection, tracker_file, attempted>>

\* Lines 142-149: the document has to be processed.
Process ==
    /\ pc = "check"
    /\ CanLoad(tracker_file)
    /\ ~unchanged(FORCE_REINDEX, load_processed_files(tracker_file), file_name, file_hash)
    /\ processed_files' = load_processed_files(tracker_file)
    /\ pc' = "extract"
    /\ UNCHANGED <<FORCE_REINDEX, envVars, collection, tracker_file, clock,
                   objects, idx, file_name, file_stream, file_hash, text,
                   page_count, text_chunks, i, points, histVars, batches, runs,
                   dirty, last, chunk_size, sideVars>>

\* Lines 158-160: not a .pdf name.
UnsupportedFileType ==
    /\ pc = "extract"
    /\ ~is_supported(file_name)
    /\ Return(file_name, "Skipped", "unsupported")
    /\ UNCHANGED <<collection, tracker_file, attempted>>

\* Line 151 raises: PdfReader rejects the bytes.
ExtractError ==
    /\ pc = "extract"
    /\ is_supported(file_name)
    /\ ~file_stream.pdf
    /\ Return(file_name, "Failed", "extract_text_from_pdf")
    /\ UNCHANGED <<collection, tracker_file, attempted>>

\* Lines 150-157.
ExtractText ==
    /\ pc = "extract"
    /\ is_supported(file_name)
    /\ file_stream.pdf
    /\ text' = extract_text_from_pdf(file_stream).text
    /\ page_count' = extract_text_from_pdf(file_stream).page_count
    /\ pc' = "chunk"
    /\ UNCHANGED <<FORCE_REINDEX, envVars, collection, tracker_file, clock,
                   objects, idx, file_name, file_stream, file_hash,
                   processed_files, text_chunks, i, points, histVars, batches,
                   runs, dirty, last, chunk_size, sideVars>>

\* A pipeline that records a document without chunks as processed.
NoChunksRecorded ==
    /\ pc = "chunk"
    /\ split_text_into_chunks(text, CHUNK_SIZE) = <<>>
    /\ tracker_file' = JsonFile(recordProcessed(processed_files, file_name, file_hash, clock))
    /\ Return(file_name, "Skipped", "no_chunks")
    /\ UNCHANGED <<collection, attempted>>

\* Lines 164-168: nothing to index.
NoChunks ==
    /\ pc = "chunk"
    /\ split_text_into_chunks(text, CHUNK_SIZE) = <<>>
    /\ Return(file_name, "Skipped", "no_chunks")
    /\ UNCHANGED <<collection, tracker_file, attempted>>

\* Lines 164-173: the loop over the chunks starts.
SplitText ==
    /\ pc = "chunk"
    /\ split_text_into_chunks(text, CHUNK_SIZE) # <<>>
    /\ text_chunks' = split_text_into_chunks(text, CHUNK_SIZE)
    /\ i' = 0
    /\ points' = <<>>
    /\ pc' = "embed"
    /\ UNCHANGED <<FORCE_REINDEX, envVars, collection, tracker_file, clock,
                   objects, idx, file_name, file_stream, file_hash,
                   processed_files, text, page_count, histVars, batches, runs,
                   dirty, last, chunk_size, sideVars>>

\* Lines 152-157 and 181-192: the record of chunk k (0-based).
Metadata ==
    [file_name |-> file_name, mime_type |-> "application/pdf",
     page_count |-> page_count, source |-> <<"minio://index/", file_name>>]

\* A record whose identifier also depends on the time of indexing.
PointStructTimedId(k) ==
    [id |-> <<"md5_16", ChunkKey(file_name, k) \o str(clock)>>,
     vector |-> encode(text_chunks[k + 1]),
     payload |-> [text |-> text_chunks[k + 1],
                  metadata |-> Metadata,
                  chunk_index |-> k,
                  total_chunks |-> Len(text_chunks),
                  indexed_at |-> clock]]

\* A record whose total_chunks counts the chunks seen so far.
PointStructRunningTotal(k) ==
    [id |-> chunk_id(file_name, k),
     vector |-> encode(text_chunks[k + 1]),
     payload |-> [text |-> text_chunks[k + 1],
                  metadata |-> Metadata,
                  chunk_index |-> k,
                  total_chunks |-> k + 1,
                  indexed_at |-> clock]]

PointStruct(k) ==
    [id |-> chunk_id(file_name, k),
     vector |-> encode(text_chunks[k + 1]),
     payload |-> [text |-> text_chunks[k + 1],
                  metadata |-> Metadata,
                  chunk_index |-> k,
                  total_chunks |-> Len(text_chunks),
                  indexed_at |-> clock]]

\* qdrant upsert: a record replaces the record of the same id.
upsert(stored, batch) ==
    LET ids == {batch[k].id : k \in 1..Len(batch)}
        latest(id) == batch[CHOOSE k \in 1..Len(batch) :
                              /\ batch[k].id = id
                              /\ \A m \in (k + 1)..Len(batch) : batch[m].id # id]
    IN  [id \in DOMAIN stored \cup ids |->
            IF id \in ids
            THEN [vector |-> latest(id).vector, payload |-> latest(id).payload]
            ELSE stored[id]]

\* A flush test that lets the buffer grow one record past the batch size.
BatchOverfull(buffer) == Len(buffer) > BATCH_SIZE

\* The test of line 195.
BatchFull(buffer) == Len(buffer) >= BATCH_SIZE

\* Lines 173-192: chunk i is embedded and its record appended.
EmbedChunk ==
    /\ pc = "embed"
    /\ i < Len(text_chunks)
    /\ points' = Append(points, PointStruct(i))
    /\ i' = i + 1
    /\ pc' = IF BatchFull(Append(points, PointStruct(i))) THEN "flush"
             ELSE IF i + 1 < Len(text_chunks) THEN "embed" ELSE "final"
    /\ UNCHANGED <<FORCE_REINDEX, envVars, collection, tracker_file, clock,
                   objects, idx, file_name, file_stream, file_hash,
                   processed_files, text, page_count, text_chunks, histVars,
                   batches, runs, dirty, last, chunk_size, sideVars>>

\* Line 178 raises.
EmbedError ==
    /\ pc = "embed"
    /\ Return(file_name, "Failed", "encode")
    /\ UNCHANGED <<collection, tracker_file, attempted>>

\* Lines 195-198: a full batch is uploaded.
UpsertBatch ==
    /\ pc = "flush"
    /\ collection.exists
    /\ collection' = [collection EXCEPT !.points = upsert(collection.points, points)]
    /\ batches' = Append(batches, points)
    /\ points' = <<>>
    /\ pc' = IF i < Len(text_chunks) THEN "embed" ELSE "final"
    /\ UNCHANGED <<FORCE_REINDEX, envVars, tracker_file, clock, objects, idx,
                   file_name, file_stream, file_hash, processed_files, text,
                   page_count, text_chunks, i, histVars, runs, dirty, last,
                   chunk_size, sideVars>>

\* A pipeline without lines 201-203: the records left in the buffer are lost.
DropFinalBatch ==
    /\ pc = "final"
    /\ points # <<>>
    /\ points' = <<>>
    /\ pc' = "record"
    /\ UNCHANGED <<FORCE_REINDEX, envVars, collection, tracker_file, clock,
                   objects, idx, file_name, file_stream, file_hash,
                   processed_files, text, page_count, text_chunks, i, histVars,
                   batches, runs, dirty, last, chunk_size, sideVars>>

\* Lines 201-203: the remaining records are uploaded.
UpsertFinalBatch ==
    /\ pc = "final"
    /\ points # <<>>
    /\ collection.exists
    /\ collection' = [collection EXCEPT !.points = upsert(collection.points, points)]
    /\ batches' = Append(batches, points)
    /\ points' = <<>>
    /\ pc' = "record"
    /\ UNCHANGED <<FORCE_REINDEX, envVars, tracker_file, clock, objects, idx,
                   file_name, file_stream, file_hash, processed_files, text,
                   page_count, text_chunks, i, histVars, runs, dirty, last,
                   chunk_size, sideVars>>

\* Line 201: nothing remains.
NoFinalBatch ==
    /\ pc = "final"
    /\ points = <<>>
    /\ pc' = "record"
    /\ UNCHANGED <<FORCE_REINDEX, envVars, collection, tracker_file, clock,
                   objects, idx, localVars, histVars, batches, runs, dirty,
                   last, chunk_size, sideVars>>

\* A pipeline that swallows a rejected batch and carries on with the document.
UpsertErrorIgnored ==
    /\ \/ pc = "flush"
       \/ pc = "final" /\ points # <<>>
    /\ points' = <<>>
    /\ pc' = IF pc = "final" THEN "record"
             ELSE IF i < Len(text_chunks) THEN "embed" ELSE "final"
    /\ UNCHANGED <<FORCE_REINDEX, envVars, collection, tracker_file, clock,
                   objects, idx, file_name, file_stream, file_hash,
                   processed_files, text, page_count, text_chunks, i, histVars,
                   batches, runs, dirty, last, chunk_size, sideVars>>

\* Line 197 or 203 raises: the vector store rejects the batch (it always
\* does when the collection does not exist).
UpsertError ==
    /\ \/ pc = "flush"
       \/ pc = "final" /\ points # <<>>
    /\ Return(file_name, "Failed", "upsert")
    /\ UNCHANGED <<collection, tracker_file, attempted>>

\* Lines 206-207: the entry is set in the map loaded at line 142 and the map
\* is written back.
SaveProcessedFiles ==
    /\ pc = "record"
    /\ tracker_file' = JsonFile(recordProcessed(processed_files, file_name, file_hash, clock))
    /\ Return(file_name, "Indexed", "done")
    /\ UNCHANGED <<collection, attempted>>

Environment == CreateBucket \/ PutObject

IndexAllDocuments ==
    \/ RunWithoutBucket
    \/ BeginRun
    \/ ResetCollection
    \/ ResetCollectionError
    \/ EnsureCollectionExists
    \/ RunAborted
    \/ ListObjects
    \/ CheckCollectionStatus

IndexDocument ==
    \/ GetObject
    \/ GetObjectError
    \/ LoadProcessedFilesError
    \/ SkipUnchanged
    \/ Process
    \/ UnsupportedFileType
    \/ ExtractError
    \/ ExtractText
    \/ NoChunks
    \/ SplitText
    \/ EmbedChunk
    \/ EmbedError
    \/ UpsertBatch
    \/ UpsertFinalBatch
    \/ NoFinalBatch
    \/ UpsertError
    \/ SaveProcessedFiles

Next == Environment \/ IndexAllDocuments \/ IndexDocument

Spec == Init /\ [][Next]_vars

\* The indexer is one sequential process: a call of index_document that has
\* started keeps taking steps.  The runs counter only bounds the exploration,
\* and the progress of a run does not depend on it, so the fair behaviours
\* are explored from the second run of the budget on.
InitFair ==
    /\ FORCE_REINDEX = TRUE
    /\ bucket_exists \in BOOLEAN
    /\ bucket = EmptyMap
    /\ collection = NoCollection
    /\ tracker_file \in {MissingFile, CorruptFile}
    /\ clock = 0
    /\ pc = "idle"
    /\ objects = <<>>
    /\ idx = 0
    /\ LocalsCleared
    /\ outcome = NoOutcome
    /\ exit_at = NoOutcome
    /\ attempted = <<>>
    /\ prev_no_chunks = {}
    /\ batches = <<>>
    /\ runs = 1
    /\ puts = 0
    /\ dirty = FALSE
    /\ last = NoRun
    /\ chunk_size = CHUNK_SIZE
    /\ SideAtRest

FairSpec == InitFair /\ [][Next]_vars /\ WF_vars(IndexDocument)

(***************************************************************************)
(* The chunker on its own: split_text_into_chunks applied to every text    *)
(* of up to MaxTextLen characters with every chunk size up to MaxChunkSize *)
(***************************************************************************)
Alphabet == {"x", "y"}

RECURSIVE Texts(_)
Texts(n) ==
    IF n = 0 THEN {<<>>}
    ELSE Texts(n - 1) \cup
         {Append(t, c) : t \in {u \in Texts(n - 1) : Len(u) = n - 1}, c \in Alphabet}

InitChunker ==
    /\ FORCE_REINDEX = TRUE
    /\ bucket_exists = FALSE
    /\ bucket = EmptyMap
    /\ collection = NoCollection
    /\ tracker_file = MissingFile
    /\ clock = 0
    /\ pc = "split"
    /\ objects = <<>>
    /\ idx = 0
    /\ file_name = NoName
    /\ file_stream = NoBytes
    /\ file_hash = NoHash
    /\ processed_files = EmptyMap
    /\ text \in Texts(MaxTextLen)
    /\ page_count = 0
    /\ text_chunks = <<>>
    /\ i = 0
    /\ points = <<>>
    /\ outcome = NoOutcome
    /\ exit_at = NoOutcome
    /\ attempted = <<>>
    /\ prev_no_chunks = {}
    /\ batches = <<>>
    /\ runs = 0
    /\ puts = 0
    /\ dirty = FALSE
    /\ last = NoRun
    /\ chunk_size \in 1..MaxChunkSize
    /\ SideAtRest

Split ==
    /\ pc = "split"
    /\ text_chunks' = split_text_into_chunks(text, chunk_size)
    /\ pc' = "split_done"
    /\ UNCHANGED <<FORCE_REINDEX, envVars, collection, tracker_file, clock,
                   objects, idx, file_name, file_stream, file_hash,
                   processed_files, text, page_count, i, points, histVars,
                   batches, runs, dirty, last, chunk_size, sideVars>>

NextChunker == Split

SpecChunker == InitChunker /\ [][NextChunker]_vars

(***************************************************************************)
(* The record identifier on its own: line 181 applied to two (file name,   *)
(* chunk index) pairs, the names drawn from letters, digits and '-'        *)
(***************************************************************************)
\* The pipeline's variables, unused.
PipelineStateAtRest ==
    /\ bucket_exists = FALSE
    /\ bucket = EmptyMap
    /\ collection = NoCollection
    /\ tracker_file = MissingFile
    /\ clock = 0
    /\ pc = "idle"
    /\ objects = <<>>
    /\ idx = 0
    /\ LocalsCleared
    /\ outcome = NoOutcome
    /\ exit_at = NoOutcome
    /\ attempted = <<>>
    /\ prev_no_chunks = {}
    /\ batches = <<>>
    /\ runs = 0
    /\ puts = 0
    /\ dirty = FALSE
    /\ last = NoRun
    /\ chunk_size = CHUNK_SIZE

PipelineAtRest ==
    /\ FORCE_REINDEX = TRUE
    /\ PipelineStateAtRest

KeyAlphabet == {"a", "1", "-"}

RECURSIVE KeyNames(_)
KeyNames(n) ==
    IF n = 1 THEN {<<c>> : c \in KeyAlphabet}
    ELSE KeyNames(n - 1) \cup
         {Append(t, c) : t \in {u \in KeyNames(n - 1) : Len(u) = n - 1}, c \in KeyAlphabet}

KeyPairs == [name : KeyNames(MaxNameLen), index : 0..MaxKeyIndex]

InitKeys ==
    /\ PipelineAtRest
    /\ RetrieveAtRest
    /\ OverlapAtRest
    /\ pair_a \in KeyPairs
    /\ pair_b \in KeyPairs
    /\ chunk_ids = <<>>

DeriveIds ==
    /\ chunk_ids = <<>>
    /\ chunk_ids' = <<chunk_id(pair_a.name, pair_a.index), chunk_id(pair_b.name, pair_b.index)>>
    /\ UNCHANGED <<pipelineVars, pair_a, pair_b, retrVars, overlapVars>>

NextKeys == DeriveIds

SpecKeys == InitKeys /\ [][NextKeys]_vars

(***************************************************************************)
(* qdrant_retriever.py: retrieve_docs, one request against a collection    *)
(* whose points carry a similarity score (in hundredths) for the query     *)
(***************************************************************************)
\* Python values of a payload.
PyNone == [type |-> "NoneType"]
PyStr(chars) == [type |-> "str", value |-> chars]
PyInt(n) == [type |-> "int", value |-> n]
PyDict(f) == [type |-> "dict", items |-> f]

\* dict.get(key, default)
get(d, key, default) == IF key \in DOMAIN d.items THEN d.items[key] ELSE default

metadata_of(k) ==
    PyDict([file_name |-> PyStr(A_PDF), page_count |-> PyInt(1)])

\* The payloads a point may carry: as the indexer writes it (lines 184-191),
\* without metadata, without text, with a null text, or no payload at all.
WellFormed(k) ==
    PyDict([text |-> PyStr(<<"t", str(k)>>), metadata |-> metadata_of(k),
            chunk_index |-> PyInt(k), total_chunks |-> PyInt(MaxHits)])
NoMetadata(k) ==
    PyDict([text |-> PyStr(<<"t", str(k)>>), chunk_index |-> PyInt(k)])
NoText(k) ==
    PyDict([metadata |-> metadata_of(k), chunk_index |-> PyInt(k)])
TextNone(k) ==
    PyDict([text |-> PyNone, metadata |-> metadata_of(k), chunk_index |-> PyInt(k)])
Payloads(k) == {WellFormed(k), NoMetadata(k), NoText(k), TextNone(k), PyNone}

Scores == {40, 81}
Thresholds == {0, 81}
Query == <<"q">>

ScoredPoints(k) == [id : {k}, score : Scores, payload : Payloads(k)]

\* The collections: any subset of the ids 1..MaxHits, each with a score
\* and a payload.
Collections ==
    UNION {{f \in [ks -> UNION {ScoredPoints(k) : k \in ks}] :
               \A k \in ks : f[k].id = k} : ks \in SUBSET (1..MaxHits)}

\* qdrant_client.search(limit, score_threshold): the best `limit` points
\* among those scoring at least the threshold, best first; points of equal
\* score come in any order.
search(stored, limit, score_threshold) ==
    LET qualifying == {k \in DOMAIN stored : stored[k].score >= score_threshold}
        n == Min(limit, Cardinality(qualifying))
    IN  {[k \in 1..n |-> stored[order[k]]] :
            order \in {o \in [1..n -> qualifying] :
                         /\ \A a, b \in 1..n : a < b =>
                               /\ o[a] # o[b]
                               /\ stored[o[a]].score >= stored[o[b]].score
                         /\ \A a \in 1..n : \A q \in qualifying :
                               (\A b \in 1..n : o[b] # q) =>
                                   stored[o[a]].score >= stored[q].score}}

\* Lines 142-151: the DocumentChunk of a hit, or the exception raised on
\* the way.  hit.payload.get on None raises AttributeError, payload["text"]
\* without the key raises KeyError, and DocumentChunk(text=None) does not
\* validate (text: str).
DocumentChunk(h) ==
    IF h.payload.type # "dict" THEN [raises |-> "AttributeError"]
    ELSE LET metadata == get(h.payload, "metadata", PyDict(EmptyMap))
         IN  IF "text" \notin DOMAIN h.payload.items THEN [raises |-> "KeyError"]
             ELSE IF h.payload.items["text"].type # "str"
                  THEN [raises |-> "ValidationError"]
                  ELSE [raises |-> "none",
                        text |-> h.payload.items["text"].value,
                        file_name |-> get(metadata, "file_name", PyStr(<<"Unknown">>)).value,
                        score |-> h.score,
                        page_count |-> get(metadata, "page_count", PyNone),
                        chunk_index |-> get(h.payload, "chunk_index", PyNone),
                        total_chunks |-> get(h.payload, "total_chunks", PyNone)]

HTTPException(status, detail) == [status_code |-> status, detail |-> detail]
QueryResponse(docs, query) == [status_code |-> 200, documents |-> docs, query |-> query]

InitRetrieve ==
    /\ PipelineAtRest
    /\ KeysAtRest
    /\ OverlapAtRest
    /\ rpc = "encode"
    /\ request \in [query : {Query}, limit : 1..MaxLimit, threshold : Thresholds]
    /\ scored \in Collections
    /\ search_results = <<>>
    /\ hit = 0
    /\ documents = <<>>
    /\ warnings = {}
    /\ raised = "none"
    /\ response = NoResponse

\* Line 128.
EncodeQuery ==
    /\ rpc = "encode"
    /\ rpc' = "search"
    /\ UNCHANGED <<pipelineVars, keysVars, overlapVars, request, scored, search_results, hit,
                   documents, warnings, raised, response>>

\* Line 128 raises: lines 171-173.
EncodeQueryError ==
    /\ rpc = "encode"
    /\ rpc' = "done"
    /\ raised' = "encode"
    /\ response' = HTTPException(500, "Internal server error")
    /\ UNCHANGED <<pipelineVars, keysVars, overlapVars, request, scored, search_results, hit,
                   documents, warnings>>

\* Lines 131-139.
Search ==
    /\ rpc = "search"
    /\ search_results' \in search(scored, request.limit, request.threshold)
    /\ documents' = <<>>
    /\ hit' = 1
    /\ rpc' = "map"
    /\ UNCHANGED <<pipelineVars, keysVars, overlapVars, request, scored, warnings, raised,
                   response>>

\* Line 131 raises UnexpectedResponse, answered with an empty result.
SearchErrorSwallowed ==
    /\ rpc = "search"
    /\ rpc' = "done"
    /\ raised' = "UnexpectedResponse"
    /\ response' = QueryResponse(<<>>, request.query)
    /\ UNCHANGED <<pipelineVars, keysVars, overlapVars, request, scored, search_results, hit,
                   documents, warnings>>

\* Line 131 raises UnexpectedResponse: lines 168-170.
SearchError ==
    /\ rpc = "search"
    /\ rpc' = "done"
    /\ raised' = "UnexpectedResponse"
    /\ response' = HTTPException(500, "Qdrant search error")
    /\ UNCHANGED <<pipelineVars, keysVars, overlapVars, request, scored, search_results, hit,
                   documents, warnings>>

\* Line 131 raises anything else (the store cannot be reached): lines 171-173.
SearchUnavailable ==
    /\ rpc = "search"
    /\ rpc' = "done"
    /\ raised' = "ConnectionError"
    /\ response' = HTTPException(500, "Internal server error")
    /\ UNCHANGED <<pipelineVars, keysVars, overlapVars, request, scored, search_results, hit,
                   documents, warnings>>

\* The document goes to the front of the list.
PrependDocument ==
    /\ rpc = "map"
    /\ hit <= Len(search_results)
    /\ DocumentChunk(search_results[hit]).raises = "none"
    /\ documents' = <<DocumentChunk(search_results[hit])>> \o documents
    /\ hit' = hit + 1
    /\ UNCHANGED <<pipelineVars, keysVars, overlapVars, rpc, request, scored, search_results,
                   warnings, raised, response>>

\* Lines 140-153: the hit becomes a document.
AppendDocument ==
    /\ rpc = "map"
    /\ hit <= Len(search_results)
    /\ DocumentChunk(search_results[hit]).raises = "none"
    /\ documents' = Append(documents, DocumentChunk(search_results[hit]))
    /\ hit' = hit + 1
    /\ UNCHANGED <<pipelineVars, keysVars, overlapVars, rpc, request, scored, search_results,
                   warnings, raised, response>>

\* Lines 154-155: KeyError, a warning is logged and the loop goes on.
DropHit ==
    /\ rpc = "map"
    /\ hit <= Len(search_results)
    /\ DocumentChunk(search_results[hit]).raises = "KeyError"
    /\ warnings' = warnings \cup {search_results[hit].id}
    /\ hit' = hit + 1
    /\ UNCHANGED <<pipelineVars, keysVars, overlapVars, rpc, request, scored, search_results,
                   documents, raised, response>>

\* Lines 140-151 raise something that is not a KeyError: lines 171-173.
MapHitError ==
    /\ rpc = "map"
    /\ hit <= Len(search_results)
    /\ DocumentChunk(search_results[hit]).raises \in {"AttributeError", "ValidationError"}
    /\ rpc' = "done"
    /\ raised' = DocumentChunk(search_results[hit]).raises
    /\ response' = HTTPException(500, "Internal server error")
    /\ UNCHANGED <<pipelineVars, keysVars, overlapVars, request, scored, search_results, hit,
                   documents, warnings>>

\* Lines 157-166.
Respond ==
    /\ rpc = "map"
    /\ hit > Len(search_results)
    /\ rpc' = "done"
    /\ response' = QueryResponse(documents, request.query)
    /\ UNCHANGED <<pipelineVars, keysVars, overlapVars, request, scored, search_results, hit,
                   documents, warnings, raised>>

NextRetrieve ==
    \/ EncodeQuery
    \/ EncodeQueryError
    \/ Search
    \/ SearchError
    \/ SearchUnavailable
    \/ AppendDocument
    \/ DropHit
    \/ MapHitError
    \/ Respond

SpecRetrieve == InitRetrieve /\ [][NextRetrieve]_vars

(***************************************************************************)
(* Two executions of index_document, for two different documents, against  *)
(* the same processed_files.json (two indexer processes): lines 141-147    *)
(* and 205-207, with the indexing in between as one step                   *)
(***************************************************************************)
Executions == {1, 2}
Other(e) == 3 - e
DocumentOf(e) == IF e = 1 THEN A_PDF ELSE B_PDF
InFlight == {"index", "record", "dump"}

\* The entries the file may hold at the start.
EarlierEntries ==
    UNION {[ns -> [hash : {get_file_hash(ShortDoc)}, last_indexed : {0}]] :
              ns \in SUBSET {A_PDF, N_TXT}}

InitOverlap ==
    /\ FORCE_REINDEX \in BOOLEAN
    /\ PipelineStateAtRest
    /\ KeysAtRest
    /\ RetrieveAtRest
    /\ processed_json \in {MissingFile} \cup {JsonFile(m) : m \in EarlierEntries}
    /\ executions \in {f \in [Executions -> [pc : {"load"},
                                             file_name : FileNames,
                                             file_hash : {get_file_hash(c) : c \in {ShortDoc, LongDoc, OtherDoc}},
                                             processed_files : {EmptyMap}]] :
                          \A e \in Executions :
                              /\ f[e].file_name = DocumentOf(e)
                              /\ f[e].file_hash[2] \in ContentsOf(DocumentOf(e))}
    /\ time = 1
    /\ overlapped = FALSE
    /\ finished = <<>>

\* Lines 142-146: the tracker is loaded and the document has not changed.
LoadAndSkip(e) ==
    /\ executions[e].pc = "load"
    /\ CanLoad(processed_json)
    /\ unchanged(FORCE_REINDEX, load_processed_files(processed_json),
                 executions[e].file_name, executions[e].file_hash)
    /\ executions' = [executions EXCEPT
                         ![e].pc = "skipped",
                         ![e].processed_files = load_processed_files(processed_json)]
    /\ UNCHANGED <<pipelineVars, keysVars, retrVars, processed_json, time,
                   overlapped, finished>>

\* Lines 142-144: the tracker is loaded and the document is to be indexed.
LoadAndProceed(e) ==
    /\ executions[e].pc = "load"
    /\ CanLoad(processed_json)
    /\ ~unchanged(FORCE_REINDEX, load_processed_files(processed_json),
                  executions[e].file_name, executions[e].file_hash)
    /\ executions' = [executions EXCEPT
                         ![e].pc = "index",
                         ![e].processed_files = load_processed_files(processed_json)]
    /\ overlapped' = (overlapped \/ executions[Other(e)].pc \in InFlight)
    /\ UNCHANGED <<pipelineVars, keysVars, retrVars, processed_json, time, finished>>

\* Line 142 raises on a file that is no JSON document (here: one the other
\* execution has opened for writing and not yet written): lines 211-214.
LoadFails(e) ==
    /\ executions[e].pc = "load"
    /\ ~CanLoad(processed_json)
    /\ executions' = [executions EXCEPT ![e].pc = "failed"]
    /\ UNCHANGED <<pipelineVars, keysVars, retrVars, processed_json, time,
                   overlapped, finished>>

\* Lines 149-203 went through.
IndexChunks(e) ==
    /\ executions[e].pc = "index"
    /\ executions' = [executions EXCEPT ![e].pc = "record"]
    /\ UNCHANGED <<pipelineVars, keysVars, retrVars, processed_json, time,
                   overlapped, finished>>

\* Lines 149-203 raise: lines 211-214.
IndexFails(e) ==
    /\ executions[e].pc = "index"
    /\ executions' = [executions EXCEPT ![e].pc = "failed"]
    /\ UNCHANGED <<pipelineVars, keysVars, retrVars, processed_json, time,
                   overlapped, finished>>

\* Lines 206 and 52: the entry is set in the map this execution loaded and
\* the file is opened with mode 'w', which empties it.
OpenForWrite(e) ==
    /\ executions[e].pc = "record"
    /\ executions' = [executions EXCEPT
                         ![e].pc = "dump",
                         ![e].processed_files =
                             recordProcessed(executions[e].processed_files,
                                             executions[e].file_name,
                                             executions[e].file_hash, time)]
    /\ time' = time + 1
    /\ processed_json' = CorruptFile
    /\ UNCHANGED <<pipelineVars, keysVars, retrVars, overlapped, finished>>

\* Line 53: the whole map is written from the start of the file.  If the
\* other execution wrote after this one opened the file, what it wrote
\* beyond the length of this map stays behind it.
Dump(e) ==
    /\ executions[e].pc = "dump"
    /\ processed_json' \in
           IF processed_json.state = "json"
           THEN {JsonFile(executions[e].processed_files), CorruptFile}
           ELSE {JsonFile(executions[e].processed_files)}
    /\ executions' = [executions EXCEPT ![e].pc = "done"]
    /\ finished' = Append(finished, e)
    /\ UNCHANGED <<pipelineVars, keysVars, retrVars, time, overlapped>>

NextOverlap ==
    \E e \in Executions :
        \/ LoadAndSkip(e)
        \/ LoadAndProceed(e)
        \/ LoadFails(e)
        \/ IndexChunks(e)
        \/ IndexFails(e)
        \/ OpenForWrite(e)
        \/ Dump(e)

SpecOverlap == InitOverlap /\ [][NextOverlap]_vars

(***************************************************************************)
(* Properties                                                              *)
(***************************************************************************)
RECURSIVE Concat(_)
Concat(seqs) == IF seqs = <<>> THEN <<>> ELSE Head(seqs) \o Concat(Tail(seqs))

Ceil(a, b) == (a + b - 1) \div b

\* C9: split_text_into_chunks(T, C) yields ceil(L/C) chunks, chunk c (0-based)
\* being the characters of T at offsets c*C .. (c+1)*C - 1 that exist, every
\* chunk of length C except possibly the last, which is not empty; the chunks
\* concatenated give T back; the empty text gives the empty sequence.
C9_ChunksPartitionText ==
    pc = "split_done" =>
        /\ Len(text_chunks) = Ceil(Len(text), chunk_size)
        /\ \A c \in 1..Len(text_chunks) :
              /\ Len(text_chunks[c]) >= 1
              /\ Len(text_chunks[c]) <= chunk_size
              /\ c < Len(text_chunks) => Len(text_chunks[c]) = chunk_size
              /\ \A k \in 1..Len(text_chunks[c]) :
                    text_chunks[c][k] = text[(c - 1) * chunk_size + k]
        /\ Concat(text_chunks) = text
        /\ (text = <<>> => text_chunks = <<>>)

\* A text of five characters cut at size two: two full chunks and a tail.
C9_Witness ==
    /\ pc = "split_done"
    /\ Len(text) = 5
    /\ chunk_size = 2
    /\ Len(text_chunks) = 3
    /\ Len(text_chunks[3]) = 1

(***************************************************************************)
(* Properties of the pipeline                                              *)
(***************************************************************************)
\* The tracker entry of a document, as a set of at most one entry.
Entry(file, d) == IF d \in DOMAIN file.data THEN {file.data[d]} ELSE {}

\* The records the store holds for chunk k of document d.
Stored(d, k) == chunk_id(d, k) \in DOMAIN collection.points

HasPdfSuffix(name) ==
    /\ Len(name) >= 4
    /\ lower(SubSeq(name, Len(name) - 3, Len(name))) = <<".", "p", "d", "f">>

\* This run is incremental, follows a completed incremental run, and no
\* object of the bucket changed in between.
SecondIncrementalRun ==
    /\ pc # "idle"
    /\ ~FORCE_REINDEX
    /\ last.done
    /\ ~last.force
    /\ ~dirty

C2_SkipIffEntryMatches ==
    [][pc = "check" =>
          LET matches == /\ ~FORCE_REINDEX
                         /\ file_name \in DOMAIN tracker_file.data
                         /\ tracker_file.data[file_name].hash = get_file_hash(bucket[file_name])
          IN  IF matches
              THEN outcome'[file_name] = "Skipped" /\ exit_at'[file_name] = "unchanged"
              ELSE pc' = "extract" /\ outcome'[file_name] = "none"]_vars

\* C3: the tracker entry of a document changes only in the step that follows
\* the successful upsert of all its chunks 0..n-1 (n >= 1) in the same call,
\* and it then holds the hash of the bytes fetched in that call; no other
\* step writes the tracker.
C3_TrackerWrittenOnlyAfterAllBatches ==
    [][tracker_file' # tracker_file =>
          LET done == Concat(batches)
              n == Len(text_chunks)
          IN  /\ pc = "record"
              /\ n >= 1
              /\ Len(done) = n
              /\ \A k \in 1..n :
                    /\ done[k].id = chunk_id(file_name, k - 1)
                    /\ done[k].payload.chunk_index = k - 1
                    /\ Stored(file_name, k - 1)
                    /\ collection.points[done[k].id].payload = done[k].payload
              /\ outcome'[file_name] = "Indexed"
              /\ tracker_file'.state = "json"
              /\ file_name \in DOMAIN tracker_file'.data
              /\ tracker_file'.data[file_name].hash = get_file_hash(bucket[file_name])
              /\ \A d \in FileNames \ {file_name} :
                    Entry(tracker_file', d) = Entry(tracker_file, d)]_vars

\* A document of several batches has been indexed and recorded.
C3_Witness ==
    /\ outcome[A_PDF] = "Indexed"
    /\ bucket[A_PDF] = LongDoc
    /\ A_PDF \in DOMAIN tracker_file.data
    /\ tracker_file.data[A_PDF].hash = get_file_hash(LongDoc)
    /\ tracker_file.data[A_PDF].last_indexed = clock
    /\ Stored(A_PDF, 0)
    /\ Stored(A_PDF, 2)

\* C4: when the vector store rejects a batch of a document, the document
\* ends Failed at once, the store keeps the batches already upserted (and
\* nothing of the rejected one), the tracker is not written, the loop moves
\* to the next object; and for the rest of the run the document is not
\* worked on again and its tracker entry stays as it is.
C4_RejectedBatchAbortsDocument ==
    [][LET rejected == /\ pc \in {"flush", "final"}
                       /\ points # <<>>
                       /\ batches' # Append(batches, points)
       IN  /\ rejected =>
                /\ outcome'[file_name] = "Failed"
                /\ pc' \in {"fetch", "status"}
                /\ idx' = idx + 1
                /\ collection' = collection
                /\ \A b \in 1..Len(batches) : \A k \in 1..Len(batches[b]) :
                      /\ batches[b][k].id \in DOMAIN collection'.points
                      /\ collection'.points[batches[b][k].id].payload = batches[b][k].payload
                /\ tracker_file' = tracker_file
           /\ \A d \in FileNames :
                (pc # "idle" /\ outcome[d] = "Failed" /\ exit_at[d] = "upsert") =>
                    /\ file_name' # d
                    /\ outcome'[d] = "Failed"
                    /\ Entry(tracker_file', d) = Entry(tracker_file, d)]_vars

\* The second batch of a.pdf was rejected: its first batch is in the store,
\* its last chunk is not, it has no tracker entry, and the next document was
\* indexed all the same.
C4_Witness ==
    /\ outcome[A_PDF] = "Failed"
    /\ exit_at[A_PDF] = "upsert"
    /\ Stored(A_PDF, 0)
    /\ collection.points[chunk_id(A_PDF, 0)].payload.indexed_at = clock
    /\ ~Stored(A_PDF, 4)
    /\ A_PDF \notin DOMAIN tracker_file.data
    /\ outcome[B_PDF] = "Indexed"

\* Where the loop of index_all_documents stands.
C5_LoopState ==
    pc \in DocPcs \cup {"status"} =>
        /\ Len(attempted) = (IF pc = "fetch" THEN idx - 1
                             ELSE IF pc = "status" THEN Len(objects) ELSE idx)
        /\ attempted = SubSeq(objects, 1, Len(attempted))
        /\ \A j, k \in 1..Len(objects) : objects[j] = objects[k] => j = k
        /\ \A k \in 1..Len(objects) :
              (outcome[objects[k]] # "none") <=>
                  (k < Len(attempted) \/ (k = Len(attempted) /\ pc \in {"fetch", "status"}))

\* C5: once the listing is there, index_document is called on every listed
\* object exactly once, in listing order, whatever the outcome of the earlier
\* ones, and no document ends the run before the list is exhausted; a
\* document whose fetch fails ends Failed, changes neither the vector store
\* nor the tracker, and the loop moves on.  Under FairSpec a run that has
\* started on the list always reaches its end.
C5_EveryListedDocumentAttemptedOnce ==
    /\ (pc \in DocPcs) ~> (pc = "status")
    /\ [][/\ C5_LoopState
          /\ C5_LoopState'
          /\ pc \in DocPcs => (pc' \in DocPcs \cup {"status"} /\ objects' = objects)
          /\ (pc = "fetch" /\ pc' # "check") =>
                /\ outcome'[objects[idx]] = "Failed"
                /\ collection' = collection
                /\ tracker_file' = tracker_file
                /\ idx' = idx + 1
                /\ pc' = IF idx < Len(objects) THEN "fetch" ELSE "status"]_vars

\* The first document could not be fetched and the second was indexed.
C5_Witness ==
    /\ pc = "status"
    /\ Len(objects) >= 2
    /\ attempted = objects
    /\ outcome[objects[1]] = "Failed"
    /\ exit_at[objects[1]] = "get_object"
    /\ outcome[objects[2]] = "Indexed"

\* C6: when the tracker file cannot be read, because it is missing or
\* because it is not JSON, the document at the change check is treated as
\* never indexed: it goes on to extraction with an empty tracker map.
C6_ReadFailureMeansNoPriorState ==
    [][(pc = "check" /\ tracker_file.state \in {"missing", "corrupt"}) =>
          /\ pc' = "extract"
          /\ processed_files' = EmptyMap
          /\ outcome'[file_name] = "none"]_vars

\* C7: a document whose text gives no chunk ends Skipped with nothing
\* upserted and the tracker untouched; and when the next run finds its bytes
\* unchanged, the change check does not skip it: it goes on to extraction.
C7_NoChunksNeverRecorded ==
    [][/\ (pc = "chunk" /\ Len(text) = 0) =>
             /\ outcome'[file_name] = "Skipped"
             /\ batches = <<>>
             /\ collection' = collection
             /\ tracker_file' = tracker_file
       /\ (pc = "check" /\ ~dirty /\ file_name \in prev_no_chunks) =>
             pc' = "extract"]_vars

\* An incremental run is extracting again a document that the previous run
\* found to have no chunks.
C7_Witness ==
    /\ pc = "extract"
    /\ ~FORCE_REINDEX
    /\ last.done
    /\ ~last.force
    /\ ~dirty
    /\ file_name \in prev_no_chunks

\* C8: a document whose name does not end in .pdf (in any case) never gets a
\* tracker entry, never has a record in the store and never ends other than
\* unattempted, unfetched, unread tracker or skipped as unsupported.
C8_UnsupportedNeverRecorded ==
    \A d \in FileNames :
        ~HasPdfSuffix(d) =>
            /\ d \notin DOMAIN tracker_file.data
            /\ d \notin DOMAIN processed_files
            /\ exit_at[d] \in {"none", "get_object", "load_processed_files", "unsupported"}
            /\ outcome[d] # "Indexed"
            /\ (exit_at[d] = "unsupported" => outcome[d] = "Skipped")
            /\ (file_name = d => pc \in {"check", "extract"})
            /\ \A id \in DOMAIN collection.points :
                  collection.points[id].payload.metadata.file_name # d

\* n.txt, holding bytes a PDF reader would accept, was skipped as
\* unsupported by an incremental run after an earlier run.
C8_Witness ==
    /\ runs >= 2
    /\ ~FORCE_REINDEX
    /\ N_TXT \in DOMAIN bucket
    /\ bucket[N_TXT] = ShortDoc
    /\ outcome[N_TXT] = "Skipped"
    /\ exit_at[N_TXT] = "unsupported"
    /\ outcome[A_PDF] = "Indexed"

\* C10: in full-reindex mode the collection is deleted and recreated, with
\* the embedder's dimension and the cosine metric, before any document is
\* processed, so that while documents are processed the collection holds
\* only records of this run; in incremental mode the collection is created
\* only if absent and an existing one is left as it is.
C10_CollectionLifecycle ==
    [][/\ (pc = "collection" /\ ~FORCE_REINDEX /\ pc' = "list") =>
             collection' = IF collection.exists THEN collection ELSE NewCollection
       /\ (FORCE_REINDEX /\ pc' \in DocPcs) =>
             /\ collection'.exists
             /\ collection'.size = get_sentence_embedding_dimension
             /\ collection'.distance = "Cosine"
             /\ \A id \in DOMAIN collection'.points :
                   collection'.points[id].payload.indexed_at = clock']_vars

\* C14: while a document is embedded and uploaded, the buffer never holds
\* more than the batch size, no batch uploaded is empty, every batch uploaded
\* before the final one holds exactly the batch size, and the uploaded
\* batches followed by the buffer hold the chunk indices 0, 1, 2, ... in
\* order, each once; when all uploads went through they hold exactly 0..n-1.
C14_BoundedBufferFlushedInOrder ==
    pc \in {"embed", "flush", "final", "record"} =>
        LET sent == Concat(batches) \o points
        IN  /\ Len(text_chunks) >= 1
            /\ Len(points) <= BATCH_SIZE
            /\ (pc # "flush" => Len(points) < BATCH_SIZE)
            /\ \A b \in 1..Len(batches) :
                  /\ Len(batches[b]) >= 1
                  /\ Len(batches[b]) <= BATCH_SIZE
                  /\ (b < Len(batches) \/ pc # "record") => Len(batches[b]) = BATCH_SIZE
            /\ Len(sent) = i
            /\ \A k \in 1..Len(sent) : sent[k].payload.chunk_index = k - 1
            /\ (pc \in {"final", "record"} => i = Len(text_chunks))
            /\ (pc = "record" => points = <<>> /\ Len(Concat(batches)) = Len(text_chunks))

\* A document of five chunks went out in two full batches and a final batch
\* of one.
C14_Witness ==
    /\ pc = "record"
    /\ Len(text_chunks) = 5
    /\ Len(batches) = 3
    /\ Len(batches[1]) = BATCH_SIZE
    /\ Len(batches[3]) = 1

\* The records of document d that the run at time now wrote.
WrittenFor(d, now) ==
    {id \in DOMAIN collection.points :
        /\ collection.points[id].payload.metadata.file_name = d
        /\ collection.points[id].payload.indexed_at = now}

\* C15: when every chunk of a document has been uploaded, this run has
\* written exactly n = ceil(len(text) / CHUNK_SIZE) records for it, one per
\* chunk index c in 0..n-1, with chunk_index = c, total_chunks = n and text
\* the characters of the extracted text from offset c*CHUNK_SIZE on.
C15_OneRecordPerChunk ==
    pc = "record" =>
        LET n == Ceil(Len(text), CHUNK_SIZE)
        IN  /\ n >= 1
            /\ Cardinality(WrittenFor(file_name, clock)) = n
            /\ \A c \in 0..(n - 1) :
                  /\ Stored(file_name, c)
                  /\ chunk_id(file_name, c) \in WrittenFor(file_name, clock)
                  /\ LET payload == collection.points[chunk_id(file_name, c)].payload
                     IN  /\ payload.chunk_index = c
                         /\ payload.total_chunks = n
                         /\ Len(payload.text) = Min(CHUNK_SIZE, Len(text) - c * CHUNK_SIZE)
                         /\ \A k \in 1..Len(payload.text) :
                               payload.text[k] = text[c * CHUNK_SIZE + k]

\* The nine characters of a.pdf gave five records, the last of one character.
C15_Witness ==
    /\ pc = "record"
    /\ file_name = A_PDF
    /\ Len(text) = 9
    /\ Cardinality(WrittenFor(A_PDF, clock)) = 5
    /\ collection.points[chunk_id(A_PDF, 4)].payload.total_chunks = 5
    /\ collection.points[chunk_id(A_PDF, 4)].payload.text = <<"y">>

\* The records the store holds for chunk k of document d, whatever their id.
RecordsOf(stored, d, k) ==
    {id \in DOMAIN stored :
        /\ stored[id].payload.metadata.file_name = d
        /\ stored[id].payload.chunk_index = k}

\* C16: the identifier of a record depends on the document and the chunk
\* index only: every upload puts each record under the identifier that any
\* earlier record of the same document and chunk index has, whatever its
\* text, hash, time and run, so that record is replaced, the store grows only
\* by the chunk indices it did not hold, and the store never holds two
\* records for one chunk index of a document.
C16_ReindexReplacesUnderSameIds ==
    [][(pc \in {"flush", "final"} /\ collection'.points # collection.points) =>
          LET old == collection.points
              new == collection'.points
              fresh == {k \in 1..Len(points) :
                          RecordsOf(old, file_name, points[k].payload.chunk_index) = {}}
          IN  /\ \A k \in 1..Len(points) :
                    /\ RecordsOf(old, file_name, points[k].payload.chunk_index) \subseteq {points[k].id}
                    /\ points[k].id \in DOMAIN new
                    /\ new[points[k].id].payload = points[k].payload
              /\ Cardinality(DOMAIN new) = Cardinality(DOMAIN old) + Cardinality(fresh)
              /\ \A d \in FileNames : \A k \in 0..9 :
                    Cardinality(RecordsOf(new, d, k)) <= 1]_vars

\* b.pdf, indexed by an earlier run with other bytes of the same chunk count,
\* has been indexed again by an incremental run: the store holds its two
\* records, with the new text, and no more.
C16_Witness ==
    /\ pc = "record"
    /\ ~FORCE_REINDEX
    /\ file_name = B_PDF
    /\ file_stream = OtherDoc
    /\ B_PDF \in DOMAIN tracker_file.data
    /\ tracker_file.data[B_PDF].hash = get_file_hash(ShortDoc)
    /\ tracker_file.data[B_PDF].last_indexed < clock
    /\ Cardinality({id \in DOMAIN collection.points :
                      collection.points[id].payload.metadata.file_name = B_PDF}) = 2
    /\ collection.points[chunk_id(B_PDF, 0)].payload.text = <<"y", "x">>
    /\ collection.points[chunk_id(B_PDF, 0)].payload.indexed_at = clock

\* The number of chunks of the bytes a tracker entry records.
ChunksRecorded(entry) ==
    Len(split_text_into_chunks(extract_text_from_pdf(entry.hash[2]).text, CHUNK_SIZE))

\* C19: after a run that went through its list, whenever the tracker holds an
\* entry for a document, the collection holds a record for every chunk index
\* of the document as it was last indexed.
C19_TrackedDocumentsAreStored ==
    (pc = "idle" /\ last.done /\ collection.exists) =>
        \A d \in DOMAIN tracker_file.data :
            \A k \in 0..(ChunksRecorded(tracker_file.data[d]) - 1) : Stored(d, k)

\* C20: when an incremental run has uploaded all n chunks of a document that
\* an earlier run had indexed, every record the store holds for the document
\* has chunk_index < n and total_chunks = n.
C20_NoStaleChunks ==
    (pc = "record" /\ ~FORCE_REINDEX /\ file_name \in DOMAIN processed_files) =>
        \A id \in DOMAIN collection.points :
            collection.points[id].payload.metadata.file_name = file_name =>
                /\ collection.points[id].payload.chunk_index < Len(text_chunks)
                /\ collection.points[id].payload.total_chunks = Len(text_chunks)

\* C17: two (file name, chunk index) pairs get the same identifier only if
\* they are the same pair, also for names made of letters, digits and '-';
\* and the identifier of a pair is the digest of name, '-', decimal index.
C17_IdentifierDeterminesPair ==
    chunk_ids # <<>> =>
        /\ (chunk_ids[1] = chunk_ids[2] => pair_a = pair_b)
        /\ (pair_a = pair_b => chunk_ids[1] = chunk_ids[2])
        /\ chunk_ids[1][2] = pair_a.name \o <<"-">> \o str(pair_a.index)
        /\ Len(str(pair_a.index)) = (IF pair_a.index < 10 THEN 1 ELSE 2)

\* ("a1", 1) and ("a", 11), whose name and index digits run together to the
\* same characters, have different identifiers.
C17_Witness ==
    /\ chunk_ids # <<>>
    /\ pair_a = [name |-> <<"a", "1">>, index |-> 1]
    /\ pair_b = [name |-> <<"a">>, index |-> 11]
    /\ chunk_ids[1] # chunk_ids[2]

\* A hit whose payload is a mapping with a string under "text".
WellFormedHit(h) ==
    /\ h.payload.type = "dict"
    /\ "text" \in DOMAIN h.payload.items
    /\ h.payload.items["text"].type = "str"

\* The hits a warning was logged for, taken out of the search results.
WithoutDropped(hits, logged) == SelectSeq(hits, LAMBDA h : h.id \notin logged)

\* C11: the documents of a successful response are the hits the search
\* returned, in the same order and with the same scores, minus the dropped
\* hits; so no score is below the threshold, the scores descend, and there
\* are at most `limit` documents.
C11_DocumentsAreTheHitsInOrder ==
    response.status_code = 200 =>
        LET kept == WithoutDropped(search_results, warnings)
        IN  /\ Len(response.documents) = Len(kept)
            /\ \A k \in 1..Len(kept) :
                  /\ response.documents[k].score = kept[k].score
                  /\ response.documents[k].text = <<"t", str(kept[k].id)>>
                  /\ response.documents[k].score >= request.threshold
            /\ \A a, b \in 1..Len(response.documents) :
                  a < b => response.documents[a].score >= response.documents[b].score
            /\ Len(response.documents) <= request.limit
            /\ response.query = request.query

\* Three hits, the middle one dropped: the response holds the other two,
\* the better one first.
C11_Witness ==
    /\ response.status_code = 200
    /\ Len(search_results) = 3
    /\ warnings = {search_results[2].id}
    /\ Len(response.documents) = 2
    /\ response.documents[1].score = 81
    /\ response.documents[2].score = 40
    /\ response.documents[1].text # response.documents[2].text

\* C12: when a request is answered and every hit was either well-formed or
\* without payload, without text, or with a text that is no string, the
\* request succeeded, a warning was logged for exactly the malformed hits,
\* and the response holds every well-formed hit, in order.
C12_MalformedHitsAreDropped ==
    rpc = "done" /\ raised \notin {"encode", "UnexpectedResponse", "ConnectionError"} =>
        LET good == SelectSeq(search_results, WellFormedHit)
        IN  /\ response.status_code = 200
            /\ warnings = {search_results[k].id : k \in
                              {j \in 1..Len(search_results) :
                                  ~WellFormedHit(search_results[j])}}
            /\ Len(response.documents) = Len(good)
            /\ \A k \in 1..Len(good) :
                  response.documents[k].text = good[k].payload.items["text"].value

\* C13: a request during which the embedder or the vector store failed is
\* answered with status 500 and a message, never with a successful response.
C13_CollaboratorFailureIsAServerError ==
    /\ raised \in {"encode", "UnexpectedResponse", "ConnectionError"} =>
          /\ response.status_code = 500
          /\ response.detail \in {"Internal server error", "Qdrant search error"}
    /\ (raised = "UnexpectedResponse" => response.detail = "Qdrant search error")
    /\ (response.status_code = 200 => raised = "none" /\ rpc = "done")

\* The vector store rejected the search of a collection that holds points.
C13_Witness ==
    /\ rpc = "done"
    /\ raised = "UnexpectedResponse"
    /\ response = HTTPException(500, "Qdrant search error")
    /\ DOMAIN scored # {}

\* After both executions have succeeded the file holds both documents'
\* entries.
BothEntriesPersist ==
    (\A e \in Executions : executions[e].pc = "done") =>
        /\ processed_json.state = "json"
        /\ \A e \in Executions :
              /\ executions[e].file_name \in DOMAIN processed_json.data
              /\ processed_json.data[executions[e].file_name].hash = executions[e].file_hash

\* An execution that did not overlap with the other and saved last has left
\* in the file what it loaded, with its own entry set and no other changed.
SequentialRecordingKeepsOthers ==
    \A e \in Executions :
        ( /\ executions[e].pc = "done"
          /\ ~overlapped
          /\ finished[Len(finished)] = e
          /\ executions[Other(e)].pc \notin InFlight ) =>
            /\ processed_json.state = "json"
            /\ DOMAIN processed_json.data = DOMAIN executions[e].processed_files
            /\ executions[e].file_name \in DOMAIN processed_json.data
            /\ processed_json.data[executions[e].file_name].hash = executions[e].file_hash
            /\ \A n \in DOMAIN processed_json.data : n # executions[e].file_name =>
                  \/ processed_json.data[n] = [hash |-> get_file_hash(ShortDoc), last_indexed |-> 0]
                  \/ /\ n = executions[Other(e)].file_name
                     /\ executions[Other(e)].pc = "done"
                     /\ processed_json.data[n].hash = executions[Other(e)].file_hash

====
